---- MODULE Spec2Model ----
(***************************************************************************)
(* Model of autoscrap4rs (src/src/lib.rs): perform_scraping runs the       *)
(* actions of one ScrapingTask against one playwright page.                *)
(*                                                                         *)
(* The browser driver is the environment.  Every request the code issues   *)
(* (every awaited call on the page, an element, the browser, and the one   *)
(* std::fs::write) is appended to `log` together with the answer the       *)
(* environment gave.  Answers are strings:                                 *)
(*   "Ok"    the call returned Ok(_) with nothing the code looks at        *)
(*   "Err"   the call returned Err(_)                                      *)
(*   "None"  the call returned Ok(None)                                    *)
(*   "Some"  the call returned Ok(Some(handle))                            *)
(*   "true" / "false"   is_checked returned Ok(bool)                       *)
(*   a member of Values / Bodies: the call returned Ok(Some(v)) / Ok(v)    *)
(* An Option<String> field of an Action is <<>> (None) or <<s>> (Some(s)). *)
(***************************************************************************)
EXTENDS Integers, Sequences, FiniteSets, TLC

\* ---------------------------------------------------------------- bounds
MaxActions == 2
MaxElems == 2

\* ------------------------------------------------------ program constants
\* page.wait_for_timeout(2000f64) in the Login arm
LoginWaitMs == 2000

\* -------------------------------------------------- values of the session
Values == {"Hello"}         \* what get_attribute / text_content can yield
Hrefs == {"u2"}             \* what the attribute read by Navigate can yield
Bodies == {"b123"}          \* response bodies
WaitMs == {0, 5}            \* milliseconds of a Wait
Result == {"Ok", "Err"}                 \* answers of a call returning Result<()>
OptResult == {"Err", "None", "Some"}    \* answers of a call returning Result<Option<_>>

VARIABLES
    task,      \* the ScrapingTask's actions (immutable once chosen)
    pc,        \* where perform_scraping stands
    i,         \* index of the next action of the for loop (1-based)
    calls,     \* the calls of perform_action made so far, each with how it ended
    log,       \* requests issued so far, each with the action that issued it
    ret,       \* "none" while running; "Ok", "Err" or "panic" once it ended
    err,       \* the error carried by ret = "Err" / the panic of ret = "panic"
    results,   \* the Vec<String> `results` of perform_scraping
    stdout,    \* lines printed with println!
    browser,   \* "none", "open", "closed": the launched browser process
    checked,   \* the checked state of the page's checkbox
    file,      \* the content of dist_path: "absent" or the bytes written
    contents,  \* the task file handed to load_json
    loaded     \* what load_json returned, once it has

vars == <<task, pc, i, calls, log, ret, err, results, stdout, browser, checked, file,
          contents, loaded>>

\* ------------------------------------------------------------ data model
\* enum Action: one record per variant, with the variant's fields
Action ==
    {[type |-> "GoTo", url |-> "u"]}
    \cup {[type |-> "Click", selector |-> "s"]}
    \cup {[type |-> "Input", selector |-> "s", text |-> "t"]}
    \cup {[type |-> "Extract", selector |-> "h1", attribute |-> at] :
             at \in {<<>>, <<"href">>}}
    \cup {[type |-> "Wait", milliseconds |-> ms] : ms \in WaitMs}
    \cup {[type |-> "Login", url |-> "u", username_selector |-> "us",
           password_selector |-> "ps", username |-> "name",
           password |-> "pw", submit_selector |-> "sub"]}
    \cup {[type |-> "Navigate", selector |-> "a", attribute |-> "href"]}
    \cup {[type |-> "FillCheckbox", selector |-> "cb", checked |-> c] :
             c \in BOOLEAN}
    \cup {[type |-> "SelectDropdown", selector |-> "dd", option |-> "o1"]}
    \cup {[type |-> "Hover", selector |-> "s"]}
    \cup {[type |-> "DoubleClick", selector |-> "s"]}
    \cup {[type |-> "RightClick", selector |-> "s"]}
    \cup {[type |-> "RunScript", script |-> "js"]}
    \cup {[type |-> "DownloadFile", url |-> "u", dist_path |-> "p"]}

\* struct ScrapingTask: the `actions` vector (the name plays no part in execution)
ScrapingTask == UNION {[1..n -> Action] : n \in 0..MaxActions}

\* ------------------------------------------------------ requests and answers
\* one request: what was called, on what, with what, and the answer
\* (n is the one numeric argument a request can carry: the milliseconds of a
\* wait, the number of handles query_selector_all returned, the position in
\* that list of the element a read is issued on; 0 otherwise)
OpN(op, arg, val, n, out) == [op |-> op, arg |-> arg, val |-> val, n |-> n, out |-> out]
Op(op, arg, val, out) == OpN(op, arg, val, 0, out)

\* what one call of perform_action did: the requests, how it ended, what it printed
Outcome(ops, res, e, printed) == [ops |-> ops, res |-> res, err |-> e, printed |-> printed]

\* the prefix of a `?`-chained sequence of requests up to and including the
\* first that answered Err
RECURSIVE UntilErr(_)
UntilErr(ops) ==
    IF ops = <<>> THEN <<>>
    ELSE IF Head(ops).out = "Err" THEN <<Head(ops)>>
    ELSE <<Head(ops)>> \o UntilErr(Tail(ops))

Failed(ops) == ops # <<>> /\ ops[Len(ops)].out = "Err"

\* a straight-line arm: every request is followed by `?`, then return Ok(())
Chain(ops) ==
    LET done == UntilErr(ops)
    IN  IF Failed(done) THEN Outcome(done, "Err", "playwright", <<>>)
        ELSE Outcome(done, "Ok", "none", <<>>)

\* ------------------------------------------------------- perform_action
\* Each arm of the match, as a function of the action and of the answers the
\* session gives to the requests the arm issues.

\* Action::GoTo { url } => page.goto_builder(url).goto().await?,   then Ok(())
Action_GoTo(a, g) == Chain(<<Op("goto", a.url, "", g)>>)

Action_Click(a, r) == Chain(<<Op("click", a.selector, "", r)>>)

Action_Input(a, r) == Chain(<<Op("fill", a.selector, a.text, r)>>)

\* mutant of ExtractLoop: no `return Ok(())` at the first value, every matched
\* element is read
RECURSIVE ExtractLoop_All(_, _, _)
ExtractLoop_All(attribute, outs, k) ==
    IF k > Len(outs) THEN Outcome(<<>>, "Ok", "none", <<>>)
    ELSE LET read == IF attribute # <<>>
                     THEN OpN("get_attribute", attribute[1], "", k, outs[k])
                     ELSE OpN("text_content", "", "", k, outs[k])
             rest == ExtractLoop_All(attribute, outs, k + 1)
         IN  IF outs[k] = "Err"
             THEN Outcome(<<read>>, "Err", "playwright", <<>>)
             ELSE Outcome(<<read>> \o rest.ops, rest.res, rest.err,
                          (IF outs[k] = "None" THEN <<>>
                           ELSE <<<<"this content: {}", outs[k]>>>>) \o rest.printed)

\* for element in elements { ... }, from the k-th element on
RECURSIVE ExtractLoop(_, _, _)
ExtractLoop(attribute, outs, k) ==
    IF k > Len(outs) THEN Outcome(<<>>, "Ok", "none", <<>>)
    ELSE LET read == IF attribute # <<>>
                     THEN OpN("get_attribute", attribute[1], "", k, outs[k])
                     ELSE OpN("text_content", "", "", k, outs[k])
         IN  IF outs[k] = "Err"
             THEN Outcome(<<read>>, "Err", "playwright", <<>>)
             ELSE IF outs[k] = "None"
             THEN LET rest == ExtractLoop(attribute, outs, k + 1)
                  IN  Outcome(<<read>> \o rest.ops, rest.res, rest.err, rest.printed)
             ELSE Outcome(<<read>>, "Ok", "none",
                          <<<<"this content: {}", outs[k]>>>>)

\* mutant of Action_Extract: an Extract that obtained no value is an error
Action_Extract_Strict(a, q, outs) ==
    LET query == OpN("query_selector_all", a.selector, "",
                     IF q = "Ok" THEN Len(outs) ELSE 0, q)
    IN  IF q = "Err" THEN Outcome(<<query>>, "Err", "playwright", <<>>)
        ELSE LET loop == ExtractLoop(a.attribute, outs, 1)
             IN  IF loop.res = "Ok" /\ loop.printed = <<>>
                 THEN Outcome(<<query>> \o loop.ops, "Err", "no element", <<>>)
                 ELSE Outcome(<<query>> \o loop.ops, loop.res, loop.err, loop.printed)

\* q: the answer of query_selector_all; outs[k]: what a read of the k-th
\* matched element answers
Action_Extract(a, q, outs) ==
    LET query == OpN("query_selector_all", a.selector, "",
                     IF q = "Ok" THEN Len(outs) ELSE 0, q)
    IN  IF q = "Err" THEN Outcome(<<query>>, "Err", "playwright", <<>>)
        ELSE LET loop == ExtractLoop(a.attribute, outs, 1)
             IN  Outcome(<<query>> \o loop.ops, loop.res, loop.err, loop.printed)

\* mutant of Action_Wait: a wait of zero milliseconds is refused
Action_Wait_RejectZero(a) ==
    IF a.milliseconds = 0
    THEN Outcome(<<OpN("wait_for_timeout", "", "", a.milliseconds, "Err")>>,
                 "Err", "playwright", <<>>)
    ELSE Outcome(<<OpN("wait_for_timeout", "", "", a.milliseconds, "Ok")>>,
                 "Ok", "none", <<>>)

\* page.wait_for_timeout(ms).await has no Result: it cannot fail
Action_Wait(a) ==
    Outcome(<<OpN("wait_for_timeout", "", "", a.milliseconds, "Ok")>>,
            "Ok", "none", <<>>)

\* mutant of Action_Login: the 2000 ms wait is issued whether or not a
\* sub-step failed
Action_Login_AlwaysWait(a, r) ==
    LET ops == UntilErr(<<Op("goto", a.url, "", r[1]),
                          Op("fill", a.username_selector, a.username, r[2]),
                          Op("fill", a.password_selector, a.password, r[3]),
                          Op("click", a.submit_selector, "", r[4])>>)
        wait == <<OpN("wait_for_timeout", "", "", LoginWaitMs, "Ok")>>
    IN  IF Failed(ops) THEN Outcome(ops \o wait, "Err", "playwright", <<>>)
        ELSE Outcome(ops \o wait, "Ok", "none", <<>>)

\* r[1..4]: the answers of goto, fill, fill, click
Action_Login(a, r) ==
    LET ops == UntilErr(<<Op("goto", a.url, "", r[1]),
                          Op("fill", a.username_selector, a.username, r[2]),
                          Op("fill", a.password_selector, a.password, r[3]),
                          Op("click", a.submit_selector, "", r[4])>>)
    IN  IF Failed(ops) THEN Outcome(ops, "Err", "playwright", <<>>)
        ELSE Outcome(ops \o <<OpN("wait_for_timeout", "", "", LoginWaitMs, "Ok")>>,
                     "Ok", "none", <<>>)

\* mutant of Action_Navigate: a missing element or attribute is an error
Action_Navigate_Strict(a, q, at, g) ==
    LET query == Op("query_selector", a.selector, "", q)
        read == Op("get_attribute", a.attribute, "", at)
        nav == Op("goto", at, "", g)
    IN  IF q \in {"Err", "None"} THEN Outcome(<<query>>, "Err", "playwright", <<>>)
        ELSE IF at \notin Hrefs THEN Outcome(<<query, read>>, "Err", "playwright", <<>>)
        ELSE IF g = "Err"
        THEN Outcome(<<query, read, nav>>, "Err", "playwright",
                     <<<<"Failed to navigate to {}: {:?}", at>>>>)
        ELSE Outcome(<<query, read, nav>>, "Ok", "none", <<>>)

\* mutant of Action_Navigate: a failed navigation is printed and tolerated
Action_Navigate_Tolerant(a, q, at, g) ==
    LET query == Op("query_selector", a.selector, "", q)
        read == Op("get_attribute", a.attribute, "", at)
        nav == Op("goto", at, "", g)
    IN  IF q = "Err" THEN Outcome(<<query>>, "Err", "playwright", <<>>)
        ELSE IF q = "None" THEN Outcome(<<query>>, "Ok", "none", <<>>)
        ELSE IF at \notin Hrefs THEN Outcome(<<query, read>>, "Ok", "none", <<>>)
        ELSE IF g = "Err"
        THEN Outcome(<<query, read, nav>>, "Ok", "none",
                     <<<<"Failed to navigate to {}: {:?}", at>>>>)
        ELSE Outcome(<<query, read, nav>>, "Ok", "none", <<>>)

\* q: query_selector; at: element.get_attribute; g: goto(href)
Action_Navigate(a, q, at, g) ==
    LET query == Op("query_selector", a.selector, "", q)
        read == Op("get_attribute", a.attribute, "", at)
        nav == Op("goto", at, "", g)
    IN  IF q = "Err" THEN Outcome(<<query>>, "Err", "playwright", <<>>)
        ELSE IF q = "None" THEN Outcome(<<query>>, "Ok", "none", <<>>)
        ELSE IF at \notin Hrefs THEN Outcome(<<query, read>>, "Ok", "none", <<>>)
        ELSE IF g = "Err"
        THEN Outcome(<<query, read, nav>>, "Err", "playwright",
                     <<<<"Failed to navigate to {}: {:?}", at>>>>)
        ELSE Outcome(<<query, read, nav>>, "Ok", "none", <<>>)

BoolStr(b) == IF b THEN "true" ELSE "false"

\* mutant of Action_FillCheckbox: the click is issued without comparing
\* is_checked with `checked`
Action_FillCheckbox_AlwaysClick(a, cur, q, ic, cl) ==
    LET query == Op("query_selector", a.selector, "", q)
        isc == Op("is_checked", a.selector, "", IF ic = "Ok" THEN BoolStr(cur) ELSE "Err")
        click == Op("element.click", a.selector, "", cl)
    IN  IF q = "Err"
        THEN Outcome(<<query>>, "Err", "Failed to find checkbox", <<>>)
        ELSE IF q = "None"
        THEN Outcome(<<query>>, "panic", "unwrap on None", <<>>)
        ELSE IF ic = "Err" THEN Outcome(<<query, isc>>, "Err", "playwright", <<>>)
        ELSE Chain(<<query, isc, click>>)

\* cur: the checkbox's state; q: query_selector; ic: is_checked ("Ok" answers
\* cur); cl: the click
Action_FillCheckbox(a, cur, q, ic, cl) ==
    LET query == Op("query_selector", a.selector, "", q)
        isc == Op("is_checked", a.selector, "", IF ic = "Ok" THEN BoolStr(cur) ELSE "Err")
        click == Op("element.click", a.selector, "", cl)
    IN  IF q = "Err"
        THEN Outcome(<<query>>, "Err", "Failed to find checkbox", <<>>)
        ELSE IF q = "None"     \* Ok(None).unwrap()
        THEN Outcome(<<query>>, "panic", "unwrap on None", <<>>)
        ELSE IF ic = "Err" THEN Outcome(<<query, isc>>, "Err", "playwright", <<>>)
        ELSE IF cur # a.checked
        THEN Chain(<<query, isc, click>>)
        ELSE Outcome(<<query, isc>>, "Ok", "none", <<>>)

\* the builder is made and dropped: no request reaches the session
Action_SelectDropdown(a) == Outcome(<<>>, "Ok", "none", <<>>)

Action_Hover(a, r) == Chain(<<Op("hover", a.selector, "", r)>>)

Action_DoubleClick(a, r) == Chain(<<Op("dblclick", a.selector, "", r)>>)

Action_RightClick(a, r) == Chain(<<Op("click", a.selector, "Right", r)>>)

Action_RunScript(a, r) == Chain(<<Op("eval", a.script, "", r)>>)

\* g: goto; b: response.body(); w: std::fs::write
Action_DownloadFile(a, g, b, w) ==
    LET nav == Op("goto", a.url, "", g)
        body == Op("body", "", "", b)
        write == Op("fs::write", a.dist_path, b, w)
    IN  IF g = "Err" THEN Outcome(<<nav>>, "Err", "playwright", <<>>)
        ELSE IF g = "None"     \* response.unwrap() on Ok(None)
        THEN Outcome(<<nav>>, "panic", "unwrap on None", <<>>)
        ELSE IF b = "Err" THEN Outcome(<<nav, body>>, "Err", "playwright", <<>>)
        ELSE IF w = "Err" THEN Outcome(<<nav, body, write>>, "Err", "io", <<>>)
        ELSE Outcome(<<nav, body, write>>, "Ok", "none", <<>>)

\* ------------------------------------------------------- the session
\* The checkbox after a request: a click on it that succeeded toggles it; a
\* navigation or a script that succeeded may leave it in either state.
CheckedAfterOp(cur, o) ==
    IF o.out = "Err" THEN {cur}
    ELSE IF o.op = "element.click" THEN {~cur}
    ELSE IF o.op \in {"goto", "eval"} THEN BOOLEAN
    ELSE {cur}

RECURSIVE CheckedAfter(_, _)
CheckedAfter(cur, ops) ==
    IF ops = <<>> THEN {cur}
    ELSE UNION {CheckedAfter(c, Tail(ops)) : c \in CheckedAfterOp(cur, Head(ops))}

\* dist_path after std::fs::write(dist_path, body): the bytes given on success;
\* on failure the file may be left as it was or created incomplete
RECURSIVE FileAfter(_, _)
FileAfter(cur, ops) ==
    IF ops = <<>> THEN {cur}
    ELSE IF Head(ops).op # "fs::write" THEN FileAfter(cur, Tail(ops))
    ELSE IF Head(ops).out = "Ok" THEN FileAfter(Head(ops).val, Tail(ops))
    ELSE FileAfter(cur, Tail(ops)) \cup FileAfter("partial", Tail(ops))

\* the requests of one call, marked with the index of the action that issued them
Tag(ops, k) == [j \in 1..Len(ops) |-> [act |-> k] @@ ops[j]]

\* ------------------------------------------------------- load_json
\* The task file: whether it can be read, whether it is a JSON array at all,
\* and its task objects.  A task object has its name (<<>> when the key is
\* missing) and its action objects; an action object has its discriminant and
\* the set of the keys given under it.
MaxTasks == 2
MaxDocActions == 2

\* enum Action: the variants and the fields of each that are not Option<_>
RequiredFields ==
    [GoTo |-> {"url"}, Click |-> {"selector"}, Input |-> {"selector", "text"},
     Extract |-> {"selector"}, Wait |-> {"milliseconds"},
     Login |-> {"url", "username_selector", "password_selector", "username",
                "password", "submit_selector"},
     Navigate |-> {"selector", "attribute"},
     FillCheckbox |-> {"selector", "checked"},
     SelectDropdown |-> {"selector", "option"},
     Hover |-> {"selector"}, DoubleClick |-> {"selector"},
     RightClick |-> {"selector"}, RunScript |-> {"script"},
     DownloadFile |-> {"url", "dist_path"}]

\* action objects: a well-formed GoTo, an unknown discriminant, a Wait
\* without its milliseconds
ActionDoc ==
    {[tag |-> "GoTo", fields |-> {"url"}],
     [tag |-> "Scroll", fields |-> {"selector"}],
     [tag |-> "Wait", fields |-> {}]}

ActionDocs == UNION {[1..n -> ActionDoc] : n \in 0..MaxDocActions}

TaskDoc ==
    {[name |-> nm, actions |-> as] : nm \in {<<"Task 1">>, <<"Task 2">>}, as \in ActionDocs}
    \cup {[name |-> <<>>, actions |-> <<>>]}

Document ==
    {[read |-> "Ok", json |-> "Ok", tasks |-> ts] :
        ts \in UNION {[1..n -> TaskDoc] : n \in 0..MaxTasks}}
    \cup {[read |-> "Ok", json |-> "Err", tasks |-> <<>>],
          [read |-> "Err", json |-> "Ok", tasks |-> <<>>]}

NoFile == [read |-> "Err", json |-> "Err", tasks |-> <<>>]
NotLoaded == [res |-> "none", err |-> "none", tasks |-> <<>>]

\* #[derive(Deserialize)] enum Action: the discriminant must be a variant and
\* every field that is not an Option must be given
ActionParses(d) ==
    /\ d.tag \in DOMAIN RequiredFields
    /\ RequiredFields[d.tag] \subseteq d.fields

\* #[derive(Deserialize)] struct ScrapingTask: name and every action must parse
TaskParses(d) ==
    /\ d.name # <<>>
    /\ \A j \in 1..Len(d.actions) : ActionParses(d.actions[j])

ParsedTask(d) ==
    [name |-> d.name[1],
     actions |-> [j \in 1..Len(d.actions) |->
                    [type |-> d.actions[j].tag, given |-> d.actions[j].fields]]]

\* mutant of from_str: a task object that does not parse is skipped
RECURSIVE from_str_Lenient(_, _)
from_str_Lenient(docs, acc) ==
    IF docs = <<>> THEN [res |-> "Ok", err |-> "none", tasks |-> acc]
    ELSE IF ~TaskParses(Head(docs)) THEN from_str_Lenient(Tail(docs), acc)
    ELSE from_str_Lenient(Tail(docs), Append(acc, ParsedTask(Head(docs))))

\* serde_json::from_str::<Vec<ScrapingTask>>: the elements are parsed in
\* order into acc; the first that does not parse ends the parse with an error
RECURSIVE from_str(_, _)
from_str(docs, acc) ==
    IF docs = <<>> THEN [res |-> "Ok", err |-> "none", tasks |-> acc]
    ELSE IF ~TaskParses(Head(docs))
    THEN [res |-> "Err", err |-> "serde_json", tasks |-> <<>>]
    ELSE from_str(Tail(docs), Append(acc, ParsedTask(Head(docs))))

load_json(c) ==
    IF c.read = "Err" THEN [res |-> "Err", err |-> "io", tasks |-> <<>>]
    ELSE IF c.json = "Err" THEN [res |-> "Err", err |-> "serde_json", tasks |-> <<>>]
    ELSE from_str(c.tasks, <<>>)

InitLoad ==
    /\ contents \in Document
    /\ loaded = NotLoaded
    /\ pc = "load"
    /\ task = <<>>
    /\ i = 1
    /\ calls = <<>>
    /\ log = <<>>
    /\ ret = "none"
    /\ err = "none"
    /\ results = <<>>
    /\ stdout = <<>>
    /\ browser = "none"
    /\ checked = FALSE
    /\ file = "absent"

\* let tasks = load_json(filename)
LoadJson ==
    /\ pc = "load"
    /\ loaded' = load_json(contents)
    /\ pc' = "loaded"
    /\ UNCHANGED <<contents, task, i, calls, log, ret, err, results, stdout,
                   browser, checked, file>>

NextLoad == LoadJson

SpecLoad == InitLoad /\ [][NextLoad]_vars

\* ------------------------------------------------------- perform_scraping
Init ==
    /\ task \in ScrapingTask
    /\ pc = "initialize"
    /\ i = 1
    /\ calls = <<>>
    /\ log = <<>>
    /\ ret = "none"
    /\ err = "none"
    /\ results = <<>>
    /\ stdout = <<>>
    /\ browser = "none"
    /\ checked \in BOOLEAN
    /\ file = "absent"
    /\ contents = NoFile
    /\ loaded = NotLoaded

\* `?` on a failed acquisition: perform_scraping returns the error
Return(kind) ==
    /\ pc' = "done"
    /\ ret' = "Err"
    /\ err' = kind

\* let playwright = Playwright::initialize().await?;
Initialize ==
    /\ pc = "initialize"
    /\ \E r \in Result :
          IF r = "Ok" THEN pc' = "install" /\ UNCHANGED <<ret, err>>
          ELSE Return("playwright")
    /\ UNCHANGED <<contents, loaded, task, i, calls, log, results, stdout, browser, checked, file>>

\* playwright.install_chromium()?;
InstallChromium ==
    /\ pc = "install"
    /\ \E r \in Result :
          IF r = "Ok" THEN pc' = "launch" /\ UNCHANGED <<ret, err>>
          ELSE Return("io")
    /\ UNCHANGED <<contents, loaded, task, i, calls, log, results, stdout, browser, checked, file>>

\* let browser = playwright.chromium().launcher().launch().await?;
Launch ==
    /\ pc = "launch"
    /\ \E r \in Result :
          IF r = "Ok"
          THEN pc' = "context" /\ browser' = "open" /\ UNCHANGED <<ret, err>>
          ELSE Return("playwright") /\ UNCHANGED browser
    /\ UNCHANGED <<contents, loaded, task, i, calls, log, results, stdout, checked, file>>

\* let context = browser.context_builder().build().await?;
BuildContext ==
    /\ pc = "context"
    /\ \E r \in Result :
          IF r = "Ok" THEN pc' = "page" /\ UNCHANGED <<ret, err>>
          ELSE Return("playwright")
    /\ UNCHANGED <<contents, loaded, task, i, calls, log, results, stdout, browser, checked, file>>

\* let page = context.new_page().await?;   let mut results = Vec::new();
NewPage ==
    /\ pc = "page"
    /\ \E r \in Result :
          IF r = "Ok" THEN pc' = "loop" /\ UNCHANGED <<ret, err>>
          ELSE Return("playwright")
    /\ UNCHANGED <<contents, loaded, task, i, calls, log, results, stdout, browser, checked, file>>

\* the for loop stands at an action of the given variant
At(type) == pc = "loop" /\ i <= Len(task) /\ task[i].type = type

\* mutant of Propagate: the `?` is missing, the loop goes on after a failure
Propagate_Swallow(o) ==
    /\ calls' = Append(calls, [act |-> i, res |-> o.res, err |-> o.err,
                               printed |-> o.printed])
    /\ log' = log \o Tag(o.ops, i)
    /\ stdout' = stdout \o o.printed
    /\ checked' \in CheckedAfter(checked, o.ops)
    /\ file' \in FileAfter(file, o.ops)
    /\ i' = i + 1
    /\ UNCHANGED <<pc, ret, err, task, results, browser, contents, loaded>>

\* perform_action(&page, action).await?  with outcome o
Propagate(o) ==
    /\ calls' = Append(calls, [act |-> i, res |-> o.res, err |-> o.err,
                               printed |-> o.printed])
    /\ log' = log \o Tag(o.ops, i)
    /\ stdout' = stdout \o o.printed
    /\ checked' \in CheckedAfter(checked, o.ops)
    /\ file' \in FileAfter(file, o.ops)
    /\ IF o.res = "Ok"
       THEN i' = i + 1 /\ UNCHANGED <<pc, ret, err>>
       ELSE pc' = "done" /\ ret' = o.res /\ err' = o.err /\ UNCHANGED i
    /\ UNCHANGED <<task, results, browser, contents, loaded>>

GoTo == At("GoTo") /\ \E g \in OptResult : Propagate(Action_GoTo(task[i], g))

Click == At("Click") /\ \E r \in Result : Propagate(Action_Click(task[i], r))

Input == At("Input") /\ \E r \in Result : Propagate(Action_Input(task[i], r))

Extract ==
    /\ At("Extract")
    /\ \E q \in Result : \E n \in 0..MaxElems :
         \E outs \in [1..n -> {"Err", "None"} \cup Values] :
            Propagate(Action_Extract(task[i], q, outs))

Wait == At("Wait") /\ Propagate(Action_Wait(task[i]))

Login ==
    /\ At("Login")
    /\ \E r \in [1..4 -> Result] : Propagate(Action_Login(task[i], r))

Navigate ==
    /\ At("Navigate")
    /\ \E q \in OptResult, at \in {"Err", "None"} \cup Hrefs, g \in OptResult :
          Propagate(Action_Navigate(task[i], q, at, g))

FillCheckbox ==
    /\ At("FillCheckbox")
    /\ \E q \in OptResult, ic \in Result, cl \in Result :
          Propagate(Action_FillCheckbox(task[i], checked, q, ic, cl))

SelectDropdown == At("SelectDropdown") /\ Propagate(Action_SelectDropdown(task[i]))

Hover == At("Hover") /\ \E r \in Result : Propagate(Action_Hover(task[i], r))

DoubleClick ==
    At("DoubleClick") /\ \E r \in Result : Propagate(Action_DoubleClick(task[i], r))

RightClick ==
    At("RightClick") /\ \E r \in Result : Propagate(Action_RightClick(task[i], r))

RunScript ==
    At("RunScript") /\ \E r \in Result : Propagate(Action_RunScript(task[i], r))

DownloadFile ==
    /\ At("DownloadFile")
    /\ \E g \in OptResult, b \in {"Err"} \cup Bodies, w \in Result :
          Propagate(Action_DownloadFile(task[i], g, b, w))

\* mutant of BrowserClose: the result of browser.close() is dropped instead of
\* being propagated with `?`
BrowserClose_IgnoreErr ==
    /\ pc = "loop" /\ i > Len(task)
    /\ \E r \in Result :
          /\ log' = log \o Tag(<<Op("browser.close", "", "", r)>>, 0)
          /\ browser' \in (IF r = "Ok" THEN {"closed"} ELSE {"open", "closed"})
          /\ pc' = "page_close"
          /\ UNCHANGED <<ret, err>>
    /\ UNCHANGED <<contents, loaded, task, i, calls, results, stdout, checked, file>>

\* mutant of PageClose: the result of page.close() is dropped and Ok(results)
\* is returned
PageClose_IgnoreErr ==
    /\ pc = "page_close"
    /\ \E r \in Result :
          /\ log' = log \o Tag(<<Op("page.close", "", "", r)>>, 0)
          /\ pc' = "done" /\ ret' = "Ok" /\ UNCHANGED err
    /\ UNCHANGED <<contents, loaded, task, i, calls, results, stdout, browser, checked, file>>

\* browser.close().await?;   after the loop
BrowserClose ==
    /\ pc = "loop" /\ i > Len(task)
    /\ \E r \in Result :
          /\ log' = log \o Tag(<<Op("browser.close", "", "", r)>>, 0)
          /\ IF r = "Ok"
             THEN /\ browser' = "closed"
                  /\ pc' = "page_close"
                  /\ UNCHANGED <<ret, err>>
             ELSE /\ browser' \in {"open", "closed"}
                  /\ Return("playwright")
    /\ UNCHANGED <<contents, loaded, task, i, calls, results, stdout, checked, file>>

\* page.close(Some(run_before_unload)).await?;   Ok(results)
PageClose ==
    /\ pc = "page_close"
    /\ \E r \in Result :
          /\ log' = log \o Tag(<<Op("page.close", "", "", r)>>, 0)
          /\ IF r = "Ok"
             THEN pc' = "done" /\ ret' = "Ok" /\ UNCHANGED err
             ELSE Return("playwright")
    /\ UNCHANGED <<contents, loaded, task, i, calls, results, stdout, browser, checked, file>>

Next ==
    \/ Initialize \/ InstallChromium \/ Launch \/ BuildContext \/ NewPage
    \/ GoTo \/ Click \/ Input \/ Extract \/ Wait \/ Login \/ Navigate
    \/ FillCheckbox \/ SelectDropdown \/ Hover \/ DoubleClick \/ RightClick
    \/ RunScript \/ DownloadFile
    \/ BrowserClose \/ PageClose

Spec == Init /\ [][Next]_vars

\* ------------------------------------------------------- properties
Range(f) == {f[j] : j \in DOMAIN f}

\* the requests issued by the k-th action, in order (k = 0: by the lifecycle)
OpsOf(k) == SelectSeq(log, LAMBDA e : e.act = k)

\* how many requests `op` the k-th action issued
CountOf(k, op) == Len(SelectSeq(log, LAMBDA e : e.act = k /\ e.op = op))

Called(k) == k \in 1..Len(calls)

\* perform_scraping is over (returned, or unwound by a panic)
Ended == pc = "done"

\* the last call of perform_action ended in Err
ActionFailed == calls # <<>> /\ calls[Len(calls)].res = "Err"

\* C1: if an action of the task fails, browser.close has been invoked exactly
\* once by the time perform_scraping returns the error.
C1_CloseOnceOnActionFailure ==
    (Ended /\ ActionFailed) => CountOf(0, "browser.close") = 1

\* C2: the actions are attempted in declared order, each at most once; an
\* action that does not end Ok is the last one attempted, perform_scraping
\* ends there, and what it hands to its caller is that action's failure.
C2_InOrderStopAtFirstFailure ==
    /\ Len(calls) <= Len(task)
    /\ \A j \in 1..Len(calls) : calls[j].act = j
    /\ \A e \in Range(log) : e.act <= Len(calls)
    /\ \A j \in 1..Len(calls) :
          calls[j].res # "Ok" =>
             /\ j = Len(calls)
             /\ Ended
             /\ ret = calls[j].res
             /\ err = calls[j].err
    /\ (Ended /\ ret = "Ok") => Len(calls) = Len(task)

\* C2 witness: the first of two actions failed, the second was never attempted,
\* and the caller got the error
C2_Witness ==
    /\ Ended /\ ret = "Err"
    /\ Len(task) = 2 /\ Len(calls) = 1
    /\ calls[1].res = "Err"

\* an Extract action read the value v off a matched element
Extracted(v) ==
    \E e \in Range(log) :
       /\ e.act >= 1
       /\ task[e.act].type = "Extract"
       /\ e.op \in {"get_attribute", "text_content"}
       /\ e.out = v

\* C3: a task whose actions all succeed returns, among its extracted values,
\* every value an Extract action obtained.
C3_ExtractedValueReturned ==
    (Ended /\ ret = "Ok") => \A v \in Values : Extracted(v) => v \in Range(results)

\* C4: two consecutive FillCheckbox actions with the same `checked` issue at
\* most one click between them; from an unchecked checkbox, two successful
\* FillCheckbox{checked = true} issue exactly one click and leave it checked.
C4_FillCheckboxIdempotent ==
    \A k \in 1..(Len(calls) - 1) :
       (/\ task[k].type = "FillCheckbox"
        /\ task[k + 1].type = "FillCheckbox"
        /\ task[k].checked = task[k + 1].checked)
       => /\ CountOf(k, "element.click") + CountOf(k + 1, "element.click") <= 1
          /\ (/\ task[k].checked
              /\ OpsOf(k)[2].out = "false"
              /\ calls[k + 1].res = "Ok")
             => /\ CountOf(k, "element.click") = 1
                /\ CountOf(k + 1, "element.click") = 0
                /\ (Len(calls) = k + 1 => checked)

\* C4 witness: FillCheckbox{true} ran twice in a row on a checkbox that was
\* unchecked, and both calls succeeded
C4_Witness ==
    /\ Len(calls) = 2
    /\ task[1] = [type |-> "FillCheckbox", selector |-> "cb", checked |-> TRUE]
    /\ task[2] = task[1]
    /\ OpsOf(1)[2].out = "false"
    /\ calls[2].res = "Ok"
    /\ checked

\* C5: a FillCheckbox whose selector matches no element ends as the error
\* result "Failed to find checkbox", without a click, and in no other way.
C5_MissingCheckboxIsError ==
    \A k \in 1..Len(calls) :
       (task[k].type = "FillCheckbox" /\ OpsOf(k)[1].out = "None")
       => /\ calls[k].res = "Err"
          /\ calls[k].err = "Failed to find checkbox"
          /\ CountOf(k, "element.click") = 0

\* the k-th action is a Navigate that found no element, or whose element's
\* attribute was absent or unreadable
NavigateNothingToFollow(k) ==
    /\ Called(k)
    /\ task[k].type = "Navigate"
    /\ \/ OpsOf(k)[1].out = "None"
       \/ Len(OpsOf(k)) >= 2 /\ OpsOf(k)[2].out \in {"None", "Err"}

\* C6: such a Navigate succeeds, yields no value and attempts no navigation.
C6_NavigateToleratesMissing ==
    \A k \in 1..Len(calls) :
       NavigateNothingToFollow(k)
       => /\ calls[k].res = "Ok"
          /\ calls[k].printed = <<>>
          /\ results = <<>>
          /\ CountOf(k, "goto") = 0

\* C6 witness: both tolerated cases happened in one run: no element for the
\* first Navigate, no attribute for the second
C6_Witness ==
    /\ Len(calls) = 2
    /\ NavigateNothingToFollow(1) /\ OpsOf(1)[1].out = "None"
    /\ NavigateNothingToFollow(2) /\ Len(OpsOf(2)) = 2

\* the k-th action is a Navigate whose navigation to the attribute's value failed
NavigateFailed(k) ==
    /\ Called(k)
    /\ task[k].type = "Navigate"
    /\ Len(OpsOf(k)) = 3
    /\ OpsOf(k)[2].out \in Hrefs
    /\ OpsOf(k)[3].op = "goto" /\ OpsOf(k)[3].arg = OpsOf(k)[2].out
    /\ OpsOf(k)[3].out = "Err"

\* C7: such a Navigate ends as an error, the driver's, which ends the task: no
\* later action is attempted and perform_scraping returns that error.
C7_NavigateFailureIsFatal ==
    \A k \in 1..Len(calls) :
       NavigateFailed(k)
       => /\ calls[k].res = "Err"
          /\ calls[k].err = "playwright"
          /\ k = Len(calls)
          /\ \A e \in Range(log) : e.act <= k
          /\ Ended /\ ret = "Err" /\ err = "playwright"

\* C7 witness: the navigation of a Navigate failed with an action still to run
C7_Witness == NavigateFailed(1) /\ Len(task) = 2

\* log[p] is the read (get_attribute or text_content) an Extract action issued
\* on a matched element; its n is the element's position in the match list
ExtractRead(p) ==
    /\ log[p].act >= 1
    /\ task[log[p].act].type = "Extract"
    /\ log[p].op \in {"get_attribute", "text_content"}

\* C8 as stated: Extract reads the first matched element only, whatever that
\* element yields; no later element of the match list is ever read.
C8_OnlyFirstElementRead ==
    \A p \in 1..Len(log) : ExtractRead(p) => log[p].n = 1

\* C8 as amended: Extract reads the matched elements in list order and stops
\* at the first that yields a value: an element after the first is read only
\* when the read of the element just before it yielded nothing, so no
\* element after the first one that yields a value is ever read.
C8_ReadsStopAtFirstValue ==
    \A p \in 1..Len(log) :
       ExtractRead(p) =>
          IF log[p].n = 1
          THEN /\ p > 1
               /\ log[p - 1].act = log[p].act
               /\ log[p - 1].op = "query_selector_all"
               /\ log[p - 1].n >= 1
          ELSE /\ p > 1
               /\ ExtractRead(p - 1)
               /\ log[p - 1].act = log[p].act
               /\ log[p - 1].n = log[p].n - 1
               /\ log[p - 1].out = "None"

\* C8 witness: an Extract matched two elements or more, the first yielded a
\* value, and the action ended having read that element alone
C8_Witness ==
    \E k \in 1..Len(calls) :
       /\ task[k].type = "Extract"
       /\ calls[k].res = "Ok"
       /\ OpsOf(k)[1].n >= 2
       /\ Len(OpsOf(k)) = 2
       /\ OpsOf(k)[2].out \in Values

\* the sub-steps of a Login, in the order of the source
LoginSteps(a) ==
    <<[op |-> "goto", arg |-> a.url, val |-> "", n |-> 0],
      [op |-> "fill", arg |-> a.username_selector, val |-> a.username, n |-> 0],
      [op |-> "fill", arg |-> a.password_selector, val |-> a.password, n |-> 0],
      [op |-> "click", arg |-> a.submit_selector, val |-> "", n |-> 0],
      [op |-> "wait_for_timeout", arg |-> "", val |-> "", n |-> 2000]>>

Request(e) == [op |-> e.op, arg |-> e.arg, val |-> e.val, n |-> e.n]

\* C9: a Login issues goto url, fill username, fill password, click submit,
\* wait 2000 ms, in that order; a sub-step that fails is the last one issued
\* (the wait included) and the Login fails; a Login that succeeds issued all five.
C9_LoginOrder ==
    \A k \in 1..Len(calls) :
       task[k].type = "Login" =>
          LET ops == OpsOf(k)
          IN  /\ Len(ops) \in 1..5
              /\ \A j \in 1..Len(ops) : Request(ops[j]) = LoginSteps(task[k])[j]
              /\ \A j \in 1..Len(ops) : ops[j].out = "Err" => j = Len(ops)
              /\ calls[k].res = (IF ops[Len(ops)].out = "Err" THEN "Err" ELSE "Ok")
              /\ calls[k].res = "Ok" <=> Len(ops) = 5

\* C9 witness: a Login whose click on submit failed: four sub-steps, no wait
C9_Witness ==
    \E k \in 1..Len(calls) :
       /\ task[k].type = "Login"
       /\ Len(OpsOf(k)) = 4
       /\ OpsOf(k)[4].out = "Err"
       /\ calls[k].res = "Err"

\* C10: after a SelectDropdown that succeeded, the selection of `option` on
\* `selector` was requested of the session and completed.
C10_SelectionCommitted ==
    \A k \in 1..Len(calls) :
       (task[k].type = "SelectDropdown" /\ calls[k].res = "Ok")
       => \E e \in Range(log) :
             /\ e.act = k
             /\ e.op = "select_option"
             /\ e.arg = task[k].selector
             /\ e.val = task[k].option
             /\ e.out = "Ok"

\* the k-th action is a DownloadFile whose navigation failed or gave no response
DownloadNoResponse(k) ==
    /\ Called(k)
    /\ task[k].type = "DownloadFile"
    /\ OpsOf(k)[1].out \in {"Err", "None"}

\* C11: a DownloadFile that succeeds has written the response body, unchanged,
\* to dist_path; one whose navigation fails or yields no response ends as an
\* error result and writes nothing.
C11_DownloadWritesBodyOrFails ==
    \A k \in 1..Len(calls) :
       task[k].type = "DownloadFile" =>
          /\ calls[k].res = "Ok" =>
                /\ Len(OpsOf(k)) = 3
                /\ OpsOf(k)[2].op = "body" /\ OpsOf(k)[2].out \in Bodies
                /\ OpsOf(k)[3].op = "fs::write"
                /\ OpsOf(k)[3].arg = task[k].dist_path
                /\ OpsOf(k)[3].val = OpsOf(k)[2].out
                /\ OpsOf(k)[3].out = "Ok"
                /\ (Len(calls) = k => file = OpsOf(k)[2].out)
          /\ DownloadNoResponse(k) =>
                /\ calls[k].res = "Err"
                /\ calls[k].err \in {"playwright", "io"}
                /\ CountOf(k, "fs::write") = 0

\* every way a call of perform_action on action a can go, over all the
\* answers the session can give (cur: the checkbox's state at the call)
perform_action(a) ==
    CASE a.type = "GoTo" -> {Action_GoTo(a, g) : g \in OptResult}
      [] a.type = "Click" -> {Action_Click(a, r) : r \in Result}
      [] a.type = "Input" -> {Action_Input(a, r) : r \in Result}
      [] a.type = "Extract" ->
            UNION {{Action_Extract(a, q, outs) :
                      q \in Result, outs \in [1..n -> {"Err", "None"} \cup Values]} :
                   n \in 0..MaxElems}
      [] a.type = "Wait" -> {Action_Wait(a)}
      [] a.type = "Login" -> {Action_Login(a, r) : r \in [1..4 -> Result]}
      [] a.type = "Navigate" ->
            {Action_Navigate(a, q, at, g) :
                q \in OptResult, at \in {"Err", "None"} \cup Hrefs, g \in OptResult}
      [] a.type = "FillCheckbox" ->
            {Action_FillCheckbox(a, cur, q, ic, cl) :
                cur \in BOOLEAN, q \in OptResult, ic \in Result, cl \in Result}
      [] a.type = "SelectDropdown" -> {Action_SelectDropdown(a)}
      [] a.type = "Hover" -> {Action_Hover(a, r) : r \in Result}
      [] a.type = "DoubleClick" -> {Action_DoubleClick(a, r) : r \in Result}
      [] a.type = "RightClick" -> {Action_RightClick(a, r) : r \in Result}
      [] a.type = "RunScript" -> {Action_RunScript(a, r) : r \in Result}
      [] a.type = "DownloadFile" ->
            {Action_DownloadFile(a, g, b, w) :
                g \in OptResult, b \in {"Err"} \cup Bodies, w \in Result}

\* action a can fail with error e on the request rq
CanFailWith(a, e, rq) ==
    \E o \in perform_action(a) :
       /\ o.res = "Err"
       /\ o.err = e
       /\ Request(o.ops[Len(o.ops)]) = rq

\* C12: when a task fails at an action, the error the caller receives tells
\* which action stopped the execution and which kind of failure it was.  The
\* error is the failed request's own (the `?` adds nothing to it): even read as
\* naming that request in full, and so its kind, it identifies the action only
\* when no other action of the task can fail with the same error on the same request.
C12_ErrorIdentifiesAction ==
    (Ended /\ ActionFailed) =>
       \A k \in 1..Len(task) :
          k # Len(calls) => ~CanFailWith(task[k], err, Request(log[Len(log)]))

\* the task file is a readable JSON array whose every task object has a name
\* and only actions of a known variant with all their required fields
WellFormed(c) ==
    /\ c.read = "Ok"
    /\ c.json = "Ok"
    /\ \A t \in 1..Len(c.tasks) :
          /\ c.tasks[t].name # <<>>
          /\ \A j \in 1..Len(c.tasks[t].actions) :
                /\ c.tasks[t].actions[j].tag \in DOMAIN RequiredFields
                /\ RequiredFields[c.tasks[t].actions[j].tag]
                      \subseteq c.tasks[t].actions[j].fields

\* C13: loading is all-or-nothing: a well-formed document of N tasks gives N
\* tasks in document order, each with its name and its number of actions; a
\* document with any malformed part gives an error and no task.
C13_LoadAllOrNothing ==
    pc = "loaded" =>
       IF WellFormed(contents)
       THEN /\ loaded.res = "Ok"
            /\ Len(loaded.tasks) = Len(contents.tasks)
            /\ \A t \in 1..Len(contents.tasks) :
                  /\ loaded.tasks[t].name = contents.tasks[t].name[1]
                  /\ Len(loaded.tasks[t].actions) = Len(contents.tasks[t].actions)
       ELSE /\ loaded.res = "Err"
            /\ loaded.tasks = <<>>

\* C13 witness: a document whose first task is well-formed and whose second
\* has an unknown discriminant was loaded: an error, and no task
C13_Witness ==
    /\ pc = "loaded"
    /\ Len(contents.tasks) = 2
    /\ TaskParses(contents.tasks[1])
    /\ Len(contents.tasks[2].actions) = 2
    /\ contents.tasks[2].actions[2].tag = "Scroll"
    /\ loaded.res = "Err"

\* the loop ran to its end: every action of a task that has some was called
\* and ended Ok
AllActionsSucceeded ==
    /\ Len(task) >= 1
    /\ Len(calls) = Len(task)
    /\ \A j \in 1..Len(calls) : calls[j].res = "Ok"

\* C14: when every action succeeded, perform_scraping has, by the time it
\* returns, released the browser, the context and the page, each exactly
\* once.  (The code has no call that closes the context: it is counted as
\* released with its browser.)
C14_ReleasesAllOnSuccess ==
    (Ended /\ AllActionsSucceeded) =>
       /\ CountOf(0, "browser.close") = 1
       /\ browser = "closed"
       /\ CountOf(0, "page.close") = 1

\* C15: a Wait never fails, whatever its milliseconds (zero included), and
\* its one request is the suspension; in a task made of Wait actions only, no
\* call of perform_action ends otherwise than Ok, and once past the loop every
\* action has been run.
C15_WaitNeverFails ==
    /\ \A k \in 1..Len(calls) :
          task[k].type = "Wait" =>
             /\ calls[k].res = "Ok"
             /\ OpsOf(k) = <<[act |-> k, op |-> "wait_for_timeout", arg |-> "",
                              val |-> "", n |-> task[k].milliseconds, out |-> "Ok"]>>
    /\ (\A k \in 1..Len(task) : task[k].type = "Wait") =>
          /\ \A j \in 1..Len(calls) : calls[j].res = "Ok"
          /\ CountOf(0, "browser.close") >= 1 => Len(calls) = Len(task)

\* C15 witness: a task of two Waits, the first of zero milliseconds, ran
\* through both of them
C15_Witness ==
    /\ Len(task) = 2 /\ Len(calls) = 2
    /\ task[1] = [type |-> "Wait", milliseconds |-> 0]
    /\ task[2].type = "Wait" /\ task[2].milliseconds > 0
    /\ calls[2].res = "Ok"

\* perform_scraping ended with an error before the loop although the browser
\* had been launched: building the context or opening the page failed (a task
\* with an action makes a call once the loop is reached)
AcquisitionFailedAfterLaunch ==
    /\ Ended /\ ret = "Err"
    /\ Len(task) >= 1 /\ calls = <<>>
    /\ browser # "none"

\* C16: if the context or the page cannot be acquired after the browser was
\* launched, the browser is closed before the error is returned, and no
\* action is attempted.
C16_CloseOnAcquisitionFailure ==
    AcquisitionFailedAfterLaunch =>
       /\ CountOf(0, "browser.close") = 1
       /\ browser = "closed"
       /\ \A e \in Range(log) : e.act = 0

\* requests made of the page or of something obtained from it (all but the
\* browser's close and the write to the local file)
PageOp(e) == e.op \notin {"browser.close", "fs::write"}

\* C17 as stated: no operation is issued on the page after the browser has
\* been closed; the page is released no later than the browser.
C17_NoPageOpAfterBrowserClose ==
    \A p \in 1..Len(log) : \A q \in 1..Len(log) :
       (p < q /\ log[p].op = "browser.close" /\ log[p].out = "Ok") => ~PageOp(log[q])

\* C17 as amended: the browser is released first.  No action's operation is
\* issued after browser.close; the one page operation that follows it is the
\* page's own close, issued right after browser.close and only when that
\* succeeded, and issued nowhere else.
C17_OnlyPageCloseAfterBrowserClose ==
    /\ \A p \in 1..Len(log) : \A q \in 1..Len(log) :
          (p < q /\ log[p].op = "browser.close") =>
             /\ log[p].out = "Ok"
             /\ q = p + 1
             /\ log[q].op = "page.close"
    /\ \A q \in 1..Len(log) :
          log[q].op = "page.close" =>
             /\ q > 1
             /\ log[q - 1].op = "browser.close"
             /\ log[q - 1].out = "Ok"

\* C17 witness: after an action's request, browser.close succeeded and
\* page.close was issued
C17_Witness ==
    /\ Len(log) >= 3
    /\ log[Len(log) - 2].act >= 1
    /\ log[Len(log) - 1].op = "browser.close" /\ log[Len(log) - 1].out = "Ok"
    /\ log[Len(log)].op = "page.close"

\* browser.close was invoked and failed
BrowserCloseFailed ==
    \E e \in Range(log) : e.op = "browser.close" /\ e.out = "Err"

\* C18: perform_scraping returns Ok only if every action succeeded and
\* browser.close and page.close both succeeded; if browser.close fails after
\* all actions succeeded, page.close is never attempted and the caller gets
\* an error although no action failed.
C18_OkOnlyIfAllSucceeded ==
    /\ ret = "Ok" =>
          /\ Len(calls) = Len(task)
          /\ \A j \in 1..Len(calls) : calls[j].res = "Ok"
          /\ \E e \in Range(log) : e.op = "browser.close" /\ e.out = "Ok"
          /\ \E e \in Range(log) : e.op = "page.close" /\ e.out = "Ok"
    /\ BrowserCloseFailed =>
          /\ CountOf(0, "page.close") = 0
          /\ Ended /\ ret = "Err"
          /\ Len(calls) = Len(task)
          /\ \A j \in 1..Len(calls) : calls[j].res = "Ok"

\* C18 witness: every action succeeded, browser.close failed, and
\* perform_scraping returned the error without a page.close
C18_Witness ==
    /\ AllActionsSucceeded
    /\ BrowserCloseFailed
    /\ Ended /\ ret = "Err"
    /\ CountOf(0, "page.close") = 0

\* the k-th action is an Extract whose selector matched no element, or whose
\* matched elements all yielded nothing
ExtractNothing(k) ==
    /\ Called(k)
    /\ task[k].type = "Extract"
    /\ OpsOf(k)[1].out = "Ok"
    /\ \A j \in 2..Len(OpsOf(k)) : OpsOf(k)[j].out = "None"

\* C19: such an Extract succeeds with no extracted value and does not end the
\* task: if an action follows, the loop stands at it or has already called it.
C19_ExtractNothingIsSuccess ==
    \A k \in 1..Len(calls) :
       ExtractNothing(k) =>
          /\ calls[k].res = "Ok"
          /\ calls[k].printed = <<>>
          /\ results = <<>>
          /\ Len(OpsOf(k)) = OpsOf(k)[1].n + 1
          /\ k < Len(task) =>
                IF Len(calls) = k
                THEN ~Ended /\ pc = "loop" /\ i = k + 1
                ELSE calls[k + 1].act = k + 1

\* C19 witness: an Extract matched two elements, neither yielded a value, and
\* the action after it was run
C19_Witness ==
    /\ Len(calls) = 2
    /\ ExtractNothing(1)
    /\ OpsOf(1)[1].n = 2
    /\ calls[2].act = 2

====
